---- MODULE Spec2Model ----
(***************************************************************************)
(* Model of the release tooling of fry69/release-init:                     *)
(*   tools/get-changelog.ts     extract the changelog section of a version *)
(*   tools/update-changelog.ts  rewrite or create the header of a version  *)
(*   tools/release.ts           the release driver                         *)
(*   src/main.ts                the init tool that installs these files    *)
(* Text is modelled as sequences of one-character strings, so that the     *)
(* regular expressions, split, join and trim of the scripts are computed   *)
(* character by character as the scripts compute them.                     *)
(***************************************************************************)
EXTENDS Integers, Sequences, FiniteSets, TLC

VARIABLES
    changelog,   \* text of CHANGELOG.md
    original,    \* text of CHANGELOG.md before any tool ran
    exists,      \* whether CHANGELOG.md can be read
    versionArg,  \* Deno.args[0] handed to the changelog tools
    op,          \* the tool that ran last: "none", "update" or "extract"
    runs,        \* number of update-changelog runs so far
    before,      \* text of CHANGELOG.md before the last update-changelog run
    created,     \* last update-changelog run printed "Created new header"
    content,     \* what the last get-changelog run wrote to stdout
    span,        \* start and end of the last get-changelog run, <<0, 0>> when not found
    exitCode,    \* exit code of the tool that ran last
    current,     \* release.ts: meta.version read from deno.json
    request,     \* release.ts: versionArg (bump keyword or explicit version)
    next,        \* release.ts: the SemVer record "next"
    nextVersion, \* release.ts: semver.format(next)
    relPc,       \* release.ts: position of the main execution
    relExit,     \* release.ts: exit code, -1 while the script runs
    relError,    \* release.ts: the message handed to exitError
    dryRun,        \* release.ts: args["dry-run"]
    autoConfirm,   \* release.ts and main.ts: args.yes
    isInteractive, \* release.ts and main.ts: Deno.stdin.isTerminal()
    confirmed,     \* release.ts: the main execution is past the confirmation
    entryFile,     \* the version in the VERSION constant of the entry point, <<>> when it has none
    denoFile,      \* the "version" of deno.json
    events,        \* release.ts: the file writes and subprocess runs so far, in order
    notes,         \* release.ts: const changelog, the text getChangelog returned
    commitMessage, \* message of the commit release.ts made, <<>> when none
    tag,           \* <<name, annotation>> of the tag release.ts made, <<>> when none
    force,         \* main.ts: args.force
    isQuiet,       \* main.ts: args.quiet
    target,        \* main.ts: what targetDir is: "directory", "file" or "missing"
    isDenoProject, \* main.ts: the target holds deno.json or deno.jsonc
    targetFiles,   \* main.ts: what the target holds at each destination path
    copied,        \* main.ts: how many file mappings the copy loop has been through
    successCount,  \* main.ts: install, successCount
    errorCount,    \* main.ts: install, errorCount
    initPc,        \* main.ts: position of the main execution
    initExit       \* main.ts: exit code, -1 while the script runs

vars == <<changelog, original, exists, versionArg, op, runs, before, created, content,
          span, exitCode, current, request, next, nextVersion, relPc, relExit, relError,
          dryRun, autoConfirm, isInteractive, confirmed, entryFile, denoFile, events,
          notes, commitMessage, tag, force, isQuiet, target, isDenoProject, targetFiles,
          copied, successCount, errorCount, initPc, initExit>>

clVars ==
    <<changelog, original, exists, versionArg, op, runs, before, created, content, span, exitCode>>
relVars == <<current, request, next, nextVersion, relPc, relExit, relError>>
drvVars == <<dryRun, autoConfirm, isInteractive, confirmed, entryFile, denoFile, events,
             notes, commitMessage, tag>>
initVars == <<force, isQuiet, target, isDenoProject, targetFiles, copied, successCount,
              errorCount, initPc, initExit>>

----------------------------------------------------------------------------
(* Bounds of the model *)

\* longest CHANGELOG.md, in lines
MaxLines == 3
\* update-changelog runs in one behaviour
MaxRuns == 2
\* destination files the target of the init tool holds before it runs
MaxExisting == 2

----------------------------------------------------------------------------
(* Characters and character classes of the regular expressions *)

\* \s of a JavaScript regular expression, restricted to the characters used
WS == {" ", "\t", "\n", "\r"}

\* \d
Digits == {"0", "1", "2", "3", "4", "5", "6", "7", "8", "9"}

IsWS(c) == c \in WS

IsDigit(c) == c \in Digits

\* the lowercase form of every uppercase letter
LowerOf ==
    [
      A |-> "a", B |-> "b", C |-> "c", D |-> "d", E |-> "e", F |-> "f", G |-> "g",
      H |-> "h", I |-> "i", J |-> "j", K |-> "k", L |-> "l", M |-> "m", N |-> "n",
      O |-> "o", P |-> "p", Q |-> "q", R |-> "r", S |-> "s", T |-> "t", U |-> "u",
      V |-> "v", W |-> "w", X |-> "x", Y |-> "y", Z |-> "z" ]

\* canonical form of a character under the "i" flag
Lower(c) == IF c \in DOMAIN LowerOf THEN LowerOf[c] ELSE c

Min(a, b) == IF a < b THEN a ELSE b

\* number of "#" at the start of the line
RECURSIVE HashRun(_, _)
HashRun(line, i) ==
    IF i <= Len(line) /\ line[i] = "#" THEN 1 + HashRun(line, i + 1) ELSE 0

HashCount(line) == HashRun(line, 1)

\* length of the whitespace run that starts at position i
RECURSIVE WSRun(_, _)
WSRun(s, i) ==
    IF i <= Len(s) /\ IsWS(s[i]) THEN 1 + WSRun(s, i + 1) ELSE 0

\* the literal lit stands at position i of s (case-sensitive)
LitAt(s, i, lit) ==
    /\ i >= 1
    /\ i + Len(lit) - 1 <= Len(s)
    /\ \A k \in 1..Len(lit) : s[i + k - 1] = lit[k]

\* the literal lit stands at position i of s, under the "i" flag
LitAtI(s, i, lit) ==
    /\ i >= 1
    /\ i + Len(lit) - 1 <= Len(s)
    /\ \A k \in 1..Len(lit) : Lower(s[i + k - 1]) = Lower(lit[k])

----------------------------------------------------------------------------
(* String methods *)

\* position of the first character of s at or after i that is in cs,
\* Len(s) + 1 when there is none
RECURSIVE IndexOfAny(_, _, _)
IndexOfAny(s, cs, i) ==
    IF i > Len(s) \/ s[i] \in cs THEN i ELSE IndexOfAny(s, cs, i + 1)

\* the "\r?" of the separator: a "\r" right before the "\n" belongs to it
DropCR(line) ==
    IF line # <<>> /\ line[Len(line)] = "\r" THEN SubSeq(line, 1, Len(line) - 1) ELSE line

\* String.prototype.split(/\r?\n/)
RECURSIVE SplitLines(_)
SplitLines(text) ==
    LET i == IndexOfAny(text, {"\n"}, 1)
    IN  IF i > Len(text) THEN <<text>>
        ELSE <<DropCR(SubSeq(text, 1, i - 1))>> \o SplitLines(SubSeq(text, i + 1, Len(text)))

\* Array.prototype.join(sep)
RECURSIVE JoinWith(_, _)
JoinWith(lines, sep) ==
    IF Len(lines) = 0 THEN <<>>
    ELSE IF Len(lines) = 1 THEN lines[1]
    ELSE lines[1] \o sep \o JoinWith(Tail(lines), sep)

JoinLines(lines) == JoinWith(lines, <<"\n">>)

\* String.prototype.trim()
RECURSIVE TrimStart(_)
TrimStart(s) == IF s # <<>> /\ IsWS(s[1]) THEN TrimStart(Tail(s)) ELSE s

RECURSIVE TrimEnd(_)
TrimEnd(s) ==
    IF s # <<>> /\ IsWS(s[Len(s)]) THEN TrimEnd(SubSeq(s, 1, Len(s) - 1)) ELSE s

Trim(s) == TrimEnd(TrimStart(s))

----------------------------------------------------------------------------
(* Shared by get-changelog.ts and update-changelog.ts *)

\* versionArg.replace(/^v/, ""): only a lowercase "v" is removed
NormalizeVersion(arg) ==
    IF arg # <<>> /\ arg[1] = "v" THEN Tail(arg) ELSE arg

\* The start of both version patterns, ^#{1,6}\s*\[?v?<escaped version> under
\* the "i" flag: the tuples <<n, k, b, p>> (n hashes, k whitespace characters,
\* b = 1 for "[", p = 1 for the v prefix) after which the version literal
\* stands.  escapeForRegex makes every character of the version a literal.
HeadMatches(line, literal, withV) ==
    UNION { { t \in {n} \X (0..WSRun(line, n + 1)) \X {0, 1} \X {0, 1} :
                /\ t[3] = 1 => LitAt(line, t[1] + t[2] + 1, <<"[">>)
                /\ t[4] = 1 => (withV /\ LitAtI(line, t[1] + t[2] + t[3] + 1, <<"v">>))
                /\ LitAtI(line, t[1] + t[2] + t[3] + t[4] + 1, literal) } :
            n \in 1..Min(6, HashCount(line)) }

\* order in which the backtracking matcher tries the tuples: every quantifier
\* is greedy, the leftmost one decides first
Prefers(t, u) ==
    \/ t[1] > u[1]
    \/ t[1] = u[1] /\ t[2] > u[2]
    \/ t[1] = u[1] /\ t[2] = u[2] /\ t[3] > u[3]
    \/ t[1] = u[1] /\ t[2] = u[2] /\ t[3] = u[3] /\ t[4] >= u[4]

FirstMatch(S) == CHOOSE t \in S : \A u \in S : Prefers(t, u)

\* "." matches no line terminator, so (.*)$ needs the rest of the line free of them
NoLineTerminator(line) == \A i \in 1..Len(line) : line[i] \notin {"\n", "\r"}

\* index of the first line that satisfies Test(line), 0 when there is none
\* (the code's -1; lines are numbered from 1 here)
RECURSIVE FirstFrom(_, _, _)
FirstFrom(lines, Test(_), i) ==
    IF i > Len(lines) THEN 0
    ELSE IF Test(lines[i]) THEN i
    ELSE FirstFrom(lines, Test, i + 1)

FirstIndex(lines, Test(_)) == FirstFrom(lines, Test, 1)

----------------------------------------------------------------------------
(* tools/get-changelog.ts *)

\* variant of hdrRxTest whose pattern lacks the optional v prefix
hdrRxTest_NoVPrefix(line, version) == HeadMatches(line, version, FALSE) # {}

\* hdrRx.test(line): the optional "]" and the optional date that end the
\* pattern match the empty string, and the pattern is not anchored at its end
hdrRxTest(line, version) == HeadMatches(line, version, TRUE) # {}

Unreleased == <<"U", "n", "r", "e", "l", "e", "a", "s", "e", "d">>

\* /^#{1,6}\s*\[?Unreleased\]?/i.test(line)
unreleasedRxTest(line) == HeadMatches(line, Unreleased, FALSE) # {}

\* variant of FindStart without the second search: no version header, no section
FindStart_NoFallback(lines, version) ==
    FirstIndex(lines, LAMBDA l : hdrRxTest(l, version))

\* variant of FindStart with one search: the first line that either of the
\* two expressions matches
FindStart_FirstOfEither(lines, version) ==
    FirstIndex(lines, LAMBDA l : hdrRxTest(l, version) \/ unreleasedRxTest(l))

\* start: the first line hdrRx matches, else the first line unreleasedRx matches
FindStart(lines, version) ==
    LET byVersion == FirstIndex(lines, LAMBDA l : hdrRxTest(l, version))
    IN  IF byVersion # 0 THEN byVersion
        ELSE FirstIndex(lines, LAMBDA l : unreleasedRxTest(l))

\* startLine.match(/^(#{1,6})/)?.[1].length ?? 2
StartLevel(line) ==
    IF HashCount(line) = 0 THEN 2 ELSE Min(6, HashCount(line))

\* lines[i].match(/^(#{1,6})\s+\S/): the level of a heading line, 0 for any other line
HeadingLevel(line) ==
    LET h == HashCount(line)
        w == WSRun(line, h + 1)
    IN  IF h \in 1..6 /\ w >= 1 /\ h + w + 1 <= Len(line) THEN h ELSE 0

\* variant of EndsSection that lets a heading of the same level pass
EndsSection_Strict(level, startLevel) == level < startLevel

\* a heading of this level ends a section of level startLevel
EndsSection(level, startLevel) == level <= startLevel

\* end: the first line after start that is a heading of the same or a higher
\* level, else lines.length (as a 1-based index: Len(lines) + 1)
FindEnd(lines, start) ==
    LET startLevel == StartLevel(lines[start])
        Stops(i) == /\ HeadingLevel(lines[i]) # 0
                    /\ EndsSection(HeadingLevel(lines[i]), startLevel)
    IN  IF \E i \in (start + 1)..Len(lines) : Stops(i)
        THEN CHOOSE i \in (start + 1)..Len(lines) :
                Stops(i) /\ \A j \in (start + 1)..(i - 1) : ~Stops(j)
        ELSE Len(lines) + 1

Http == <<"h", "t", "t", "p">>

\* length of the run of digits and dots that starts at position i
RECURSIVE DigitDotRun(_, _)
DigitDotRun(s, i) ==
    IF i <= Len(s) /\ (IsDigit(s[i]) \/ s[i] = ".")
    THEN 1 + DigitDotRun(s, i + 1) ELSE 0

\* /\n\n\[[\d.]+\]:\s+https?:\/\/.+$/s matches at position i: with the "s"
\* flag ".+$" runs to the end of the text
LinkRefAt(s, i) ==
    LET d == DigitDotRun(s, i + 3)
        w == WSRun(s, i + 3 + d + 2)
        h == i + 3 + d + 2 + w
        AfterScheme(j) == LitAt(s, j, <<":", "/", "/">>) /\ j + 3 <= Len(s)
    IN  /\ LitAt(s, i, <<"\n", "\n", "[">>)
        /\ d >= 1
        /\ LitAt(s, i + 3 + d, <<"]", ":">>)
        /\ w >= 1
        /\ LitAt(s, h, Http)
        /\ \/ LitAt(s, h + 4, <<"s">>) /\ AfterScheme(h + 5)
           \/ AfterScheme(h + 4)

\* content.replace(/\n\n\[[\d.]+\]:\s+https?:\/\/.+$/s, ""): the leftmost
\* match and everything after it are removed
StripLinkRefs(s) ==
    IF \E i \in 1..Len(s) : LinkRefAt(s, i)
    THEN LET i == CHOOSE i \in 1..Len(s) :
                    LinkRefAt(s, i) /\ \A j \in 1..(i - 1) : ~LinkRefAt(s, j)
         IN  SubSeq(s, 1, i - 1)
    ELSE s

\* variant of NotFoundMessage that does not name the version
NotFoundMessage_Unnamed(version) ==
    <<"No changelog entry found and no 'Unreleased' section present.">>

\* the text of a message, one token per word
NotFoundMessage(version) ==
    <<"No changelog entry found for version ">> \o version
        \o <<" and no 'Unreleased' section present.">>

ReadFailedMessage == <<"Failed to read CHANGELOG.md: ">>

\* start and end of the section as 1-based indexes, the section being
\* lines[start] to lines[end - 1]; <<0, 0>> when no start was found
SectionSpan(md, version) ==
    LET lines == SplitLines(md)
        start == FindStart(lines, version)
    IN  IF start = 0 THEN <<0, 0>> ELSE <<start, FindEnd(lines, start)>>

\* the body of the try block: the text written to stdout for a readable file
ExtractContent(md, version) ==
    LET lines == SplitLines(md)
        sp == SectionSpan(md, version)
    IN  IF sp[1] = 0 THEN NotFoundMessage(version)
        ELSE StripLinkRefs(Trim(JoinLines(SubSeq(lines, sp[1], sp[2] - 1))))

\* one run of get-changelog.ts <versionArg>
GetChangelog ==
    /\ versionArg # <<>>
    /\ op # "extract"
    /\ content' = IF exists
                  THEN ExtractContent(changelog, NormalizeVersion(versionArg))
                  ELSE ReadFailedMessage
    /\ span' = IF exists
               THEN SectionSpan(changelog, NormalizeVersion(versionArg))
               ELSE <<0, 0>>
    /\ exitCode' = 0
    /\ op' = "extract"
    /\ UNCHANGED <<changelog, original, exists, versionArg, runs, before, created>>
    /\ UNCHANGED <<relVars, drvVars, initVars>>

----------------------------------------------------------------------------
(* tools/update-changelog.ts *)

\* new Date().toISOString().split("T")[0] on the day of the run
Today == <<"2", "0", "2", "5", "-", "0", "1", "-", "0", "2">>

\* versionRx.test(line): ^(#{1,6}\s*)(\[?)(v?<version>)(\]?)(.*)$ under the "i" flag
versionRxTest(line, version) ==
    HeadMatches(line, version, TRUE) # {} /\ NoLineTerminator(line)

\* unreleasedRx.test(line): ^(#{1,6}\s*)(\[?)(Unreleased)(\]?)(.*)$ under the "i" flag
unreleasedLineTest(line) ==
    HeadMatches(line, Unreleased, FALSE) # {} /\ NoLineTerminator(line)

\* const cleanVer = ver.replace(/^v/, "")
CleanVer(ver) == IF ver # <<>> /\ ver[1] = "v" THEN Tail(ver) ELSE ver

\* line.replace(versionRx, (_, prefix, _lb, ver, _rb) => `${prefix}[${cleanVer}] - ${today}`):
\* the pattern spans the whole line, prefix and ver are its groups 1 and 3
RewriteVersionLine(line, version, today) ==
    LET t == FirstMatch(HeadMatches(line, version, TRUE))
        prefix == SubSeq(line, 1, t[1] + t[2])
        ver == SubSeq(line, t[1] + t[2] + t[3] + 1,
                      t[1] + t[2] + t[3] + t[4] + Len(version))
    IN  prefix \o <<"[">> \o CleanVer(ver) \o <<"]", " ", "-", " ">> \o today

\* variant of RewriteUnreleasedLine whose pattern stops after the word
\* "Unreleased": what follows the word on the line stays
RewriteUnreleasedLine_KeepsTail(line, version, today) ==
    LET t == FirstMatch(HeadMatches(line, Unreleased, FALSE))
        prefix == SubSeq(line, 1, t[1] + t[2])
        tail == SubSeq(line, t[1] + t[2] + t[3] + Len(Unreleased) + 1, Len(line))
    IN  prefix \o <<"[">> \o version \o <<"]", " ", "-", " ">> \o today \o tail

\* line.replace(unreleasedRx, `$1[${version}] - ${today}`)
RewriteUnreleasedLine(line, version, today) ==
    LET t == FirstMatch(HeadMatches(line, Unreleased, FALSE))
        prefix == SubSeq(line, 1, t[1] + t[2])
    IN  prefix \o <<"[">> \o version \o <<"]", " ", "-", " ">> \o today

\* /^#\s+/.test(line): the main title
TitleTest(line) == Len(line) >= 2 /\ line[1] = "#" /\ IsWS(line[2])

\* lines[insertIndex].trim() === ""
IsBlank(line) == Trim(line) = <<>>

\* variant of InsertIndex that does not step over the blank lines after the title
InsertIndex_NoSkip(lines) ==
    LET title == FirstIndex(lines, LAMBDA l : TitleTest(l))
    IN  IF title = 0 THEN 1 ELSE title + 1

\* insertIndex as a 1-based position: the new section goes before the line at
\* this position; the first line is position 1 (the code's 0)
InsertIndex(lines) ==
    LET title == FirstIndex(lines, LAMBDA l : TitleTest(l))
    IN  IF title = 0 THEN 1
        ELSE IF \E i \in (title + 1)..Len(lines) : ~IsBlank(lines[i])
             THEN CHOOSE i \in (title + 1)..Len(lines) :
                     ~IsBlank(lines[i]) /\ \A j \in (title + 1)..(i - 1) : IsBlank(lines[j])
             ELSE Len(lines) + 1

\* const newHeader = `## [${version}] - ${today}`
NewHeader(version, today) ==
    <<"#", "#", " ", "[">> \o version \o <<"]", " ", "-", " ">> \o today

AddedHeading == <<"#", "#", "#", " ", "A", "d", "d", "e", "d">>

InitialRelease ==
    <<"-", " ", "I", "n", "i", "t", "i", "a", "l", " ", "r", "e", "l", "e", "a", "s", "e">>

\* const newSection = ["", newHeader, "", "### Added", "", "- Initial release", ""]
NewSection(version, today) ==
    << <<>>, NewHeader(version, today), <<>>, AddedHeading, <<>>, InitialRelease, <<>> >>

\* variant of Splice that overwrites the line at the insertion point:
\* splice(insertIndex, 1, ...newSection)
Splice_Overwrites(lines, at, section) ==
    SubSeq(lines, 1, at - 1) \o section \o SubSeq(lines, at + 1, Len(lines))

\* lines.splice(insertIndex, 0, ...newSection)
Splice(lines, at, section) ==
    SubSeq(lines, 1, at - 1) \o section \o SubSeq(lines, at, Len(lines))

\* headerIndex and isUnreleased after the two searches (headerIndex 0 is the code's -1)
HeaderIndex(lines, version) ==
    LET byVersion == FirstIndex(lines, LAMBDA l : versionRxTest(l, version))
    IN  IF byVersion # 0 THEN byVersion
        ELSE FirstIndex(lines, LAMBDA l : unreleasedLineTest(l))

IsUnreleasedHit(lines, version) ==
    /\ FirstIndex(lines, LAMBDA l : versionRxTest(l, version)) = 0
    /\ FirstIndex(lines, LAMBDA l : unreleasedLineTest(l)) # 0

\* the lines array when the script writes it back
UpdatedLines(lines, version, today) ==
    LET headerIndex == HeaderIndex(lines, version)
    IN  IF headerIndex # 0
        THEN [lines EXCEPT ![headerIndex] =
                IF IsUnreleasedHit(lines, version)
                THEN RewriteUnreleasedLine(lines[headerIndex], version, today)
                ELSE RewriteVersionLine(lines[headerIndex], version, today)]
        ELSE Splice(lines, InsertIndex(lines), NewSection(version, today))

\* the text written back to CHANGELOG.md: lines.join("\n")
UpdatedText(text, version, today) ==
    JoinLines(UpdatedLines(SplitLines(text), version, today))

\* one run of update-changelog.ts <versionArg>
UpdateChangelog ==
    /\ versionArg # <<>>
    /\ op # "extract"
    /\ runs < MaxRuns
    /\ runs' = runs + 1
    /\ op' = "update"
    /\ before' = changelog
    /\ IF exists
       THEN LET version == NormalizeVersion(versionArg)
            IN  /\ changelog' = UpdatedText(changelog, version, Today)
                /\ created' = (HeaderIndex(SplitLines(changelog), version) = 0)
                /\ exitCode' = 0
       ELSE /\ exitCode' = 1
            /\ UNCHANGED <<changelog, created>>
    /\ UNCHANGED <<original, exists, versionArg, content, span>>
    /\ UNCHANGED <<relVars, drvVars, initVars>>

----------------------------------------------------------------------------
(* @std/semver as tools/release.ts uses it: parse and format *)

Letters ==
    { "a", "b", "c", "d", "e", "f", "g", "h", "i", "j", "k", "l", "m", "n", "o",
      "p", "q", "r", "s", "t", "u", "v", "w", "x", "y", "z",
      "A", "B", "C", "D", "E", "F", "G", "H", "I", "J", "K", "L", "M", "N", "O",
      "P", "Q", "R", "S", "T", "U", "V", "W", "X", "Y", "Z" }

DigitVal(c) ==
    CASE c = "0" -> 0 [] c = "1" -> 1 [] c = "2" -> 2 [] c = "3" -> 3
      [] c = "4" -> 4 [] c = "5" -> 5 [] c = "6" -> 6 [] c = "7" -> 7
      [] c = "8" -> 8 [] c = "9" -> 9

DigitChar(d) == <<"0", "1", "2", "3", "4", "5", "6", "7", "8", "9">>[d + 1]

AllDigits(s) == s # <<>> /\ \A i \in 1..Len(s) : IsDigit(s[i])

\* NUMERIC_IDENTIFIER: 0|[1-9]\d*
IsNumericIdentifier(s) == AllDigits(s) /\ (Len(s) = 1 \/ s[1] # "0")

\* [a-zA-Z0-9-]+
IsBuildIdentifier(s) ==
    s # <<>> /\ \A i \in 1..Len(s) : IsDigit(s[i]) \/ s[i] \in Letters \/ s[i] = "-"

\* NUMERIC_IDENTIFIER | \d*[a-zA-Z-][a-zA-Z0-9-]*
IsPrereleaseIdentifier(s) ==
    IsBuildIdentifier(s) /\ (AllDigits(s) => IsNumericIdentifier(s))

\* Number(id) of a string of digits
RECURSIVE ToNumber(_)
ToNumber(s) ==
    IF s = <<>> THEN 0
    ELSE 10 * ToNumber(SubSeq(s, 1, Len(s) - 1)) + DigitVal(s[Len(s)])

\* String(n) of a non-negative integer
RECURSIVE FormatNumber(_)
FormatNumber(n) ==
    IF n < 10 THEN <<DigitChar(n)>>
    ELSE Append(FormatNumber(n \div 10), DigitChar(n % 10))

\* String.prototype.split(sep) for a one-character separator
RECURSIVE SplitOn(_, _)
SplitOn(s, c) ==
    LET i == IndexOfAny(s, {c}, 1)
    IN  IF i > Len(s) THEN <<s>>
        ELSE <<SubSeq(s, 1, i - 1)>> \o SplitOn(SubSeq(s, i + 1, Len(s)), c)

\* an identifier of a parsed version: a number, or the string as written
NumId(n) == [num |-> TRUE, n |-> n, s |-> <<>>]

StrId(s) == [num |-> FALSE, n |-> 0, s |-> s]

\* parsePrerelease: a numeric identifier becomes a number
ParsePrereleaseId(id) ==
    IF IsNumericIdentifier(id) THEN NumId(ToNumber(id)) ELSE StrId(id)

FormatId(id) == IF id.num THEN FormatNumber(id.n) ELSE id.s

NoSemVer == [major |-> 0, minor |-> 0, patch |-> 0, prerelease |-> <<>>, build |-> <<>>]

\* The three parts FULL_REGEXP sees in a trimmed version string: the core up
\* to the first "-" or "+", the prerelease up to the first "+", the build.
\* hasPre and hasBuild say whether the "-" and the "+" are there.
VersionParts(value) ==
    LET trimmed == Trim(value)
        s == IF trimmed # <<>> /\ trimmed[1] = "v" THEN Tail(trimmed) ELSE trimmed
        c == IndexOfAny(s, {"-", "+"}, 1)
        hasPre == c <= Len(s) /\ s[c] = "-"
        b == IF hasPre THEN IndexOfAny(s, {"+"}, c + 1) ELSE c
    IN  [core |-> SplitOn(SubSeq(s, 1, c - 1), "."),
         hasPre |-> hasPre,
         pre |-> IF hasPre THEN SplitOn(SubSeq(s, c + 1, b - 1), ".") ELSE <<>>,
         hasBuild |-> b <= Len(s),
         build |-> IF b <= Len(s) THEN SplitOn(SubSeq(s, b + 1, Len(s)), ".") ELSE <<>>]

\* semver.parse(value) does not throw: the trimmed value matches FULL_REGEXP,
\* ^v?<major>.<minor>.<patch>(-<prerelease>)?(+<build>)?$
SemverValid(value) ==
    LET p == VersionParts(value)
    IN  /\ Len(p.core) = 3
        /\ \A i \in 1..3 : IsNumericIdentifier(p.core[i])
        /\ \A i \in 1..Len(p.pre) : IsPrereleaseIdentifier(p.pre[i])
        /\ \A i \in 1..Len(p.build) : IsBuildIdentifier(p.build[i])

\* semver.parse(value), for a value it accepts
SemverParse(value) ==
    LET p == VersionParts(value)
    IN  [major |-> ToNumber(p.core[1]),
         minor |-> ToNumber(p.core[2]),
         patch |-> ToNumber(p.core[3]),
         prerelease |-> [i \in 1..Len(p.pre) |-> ParsePrereleaseId(p.pre[i])],
         build |-> p.build]

\* semver.format(version): <major>.<minor>.<patch>, "-" and the prerelease
\* when it is not empty, "+" and the build when it is not empty
SemverFormat(v) ==
    LET primary == FormatNumber(v.major) \o <<".">> \o FormatNumber(v.minor)
                       \o <<".">> \o FormatNumber(v.patch)
        pre == JoinWith([i \in 1..Len(v.prerelease) |-> FormatId(v.prerelease[i])], <<".">>)
        build == JoinWith(v.build, <<".">>)
        release == IF pre = <<>> THEN primary ELSE primary \o <<"-">> \o pre
    IN  IF build = <<>> THEN release ELSE release \o <<"+">> \o build

----------------------------------------------------------------------------
(* tools/release.ts: the version calculation of the main execution *)

Major == <<"m", "a", "j", "o", "r">>

Minor == <<"m", "i", "n", "o", "r">>

Patch == <<"p", "a", "t", "c", "h">>

\* ["major", "minor", "patch"].includes(versionArg)
IsBumpKeyword(arg) == arg \in {Major, Minor, Patch}

\* variant of BumpVersion that resets no lower component and keeps the prerelease
BumpVersion_NoReset(version, keyword) ==
    LET parsed == SemverParse(version)
    IN  IF keyword = Major THEN [parsed EXCEPT !.major = @ + 1]
        ELSE IF keyword = Minor THEN [parsed EXCEPT !.minor = @ + 1]
        ELSE [parsed EXCEPT !.patch = @ + 1]

\* the keyword branch: next is a fresh parse of meta.version, changed in place
BumpVersion(version, keyword) ==
    LET parsed == SemverParse(version)
        bumped ==
            IF keyword = Major
            THEN [parsed EXCEPT !.major = @ + 1, !.minor = 0, !.patch = 0]
            ELSE IF keyword = Minor
            THEN [parsed EXCEPT !.minor = @ + 1, !.patch = 0]
            ELSE [parsed EXCEPT !.patch = @ + 1]
    IN  [bumped EXCEPT !.prerelease = <<>>]

\* variant of NextSemVer that treats an explicit version like a bump result:
\* its prerelease is cleared
NextSemVer_ClearsPrerelease(version, arg) ==
    IF IsBumpKeyword(arg) THEN BumpVersion(version, arg)
    ELSE [SemverParse(arg) EXCEPT !.prerelease = <<>>]

\* next, for a request the calculation accepts
NextSemVer(version, arg) ==
    IF IsBumpKeyword(arg) THEN BumpVersion(version, arg) ELSE SemverParse(arg)

\* variant of InvalidVersionMessage that does not name the request
InvalidVersionMessage_Unnamed(arg) == <<"Invalid version">>

InvalidVersionMessage(arg) == <<"Invalid version: ">> \o arg

CannotParseMessage(value) == <<"Cannot parse version: ">> \o value

\* const meta = await getProjectMeta(); const current = semver.parse(meta.version):
\* a version that does not parse throws, and the catch of the main execution
\* hands the message to exitError
ReadCurrent ==
    /\ relPc = "start"
    /\ IF SemverValid(current)
       THEN /\ relPc' = "calculate"
            /\ UNCHANGED <<relExit, relError>>
       ELSE /\ relPc' = "exit"
            /\ relExit' = 1
            /\ relError' = CannotParseMessage(current)
    /\ UNCHANGED <<current, request, next, nextVersion>>
    /\ UNCHANGED <<clVars, drvVars, initVars>>

\* "Calculate next version" up to const nextVersion = semver.format(next)
CalculateNext ==
    /\ relPc = "calculate"
    /\ IF IsBumpKeyword(request) \/ SemverValid(request)
       THEN /\ next' = NextSemVer(current, request)
            /\ nextVersion' = SemverFormat(NextSemVer(current, request))
            /\ relPc' = "confirm"
            /\ UNCHANGED <<relExit, relError>>
       ELSE /\ relPc' = "exit"
            /\ relExit' = 1
            /\ relError' = InvalidVersionMessage(request)
            /\ UNCHANGED <<next, nextVersion>>
    /\ UNCHANGED <<current, request>>
    /\ UNCHANGED <<clVars, drvVars, initVars>>

----------------------------------------------------------------------------
(* tools/release.ts: the main execution after the version calculation *)

\* one file write or subprocess run of release.ts
Event(step, ok) == [step |-> step, ok |-> ok]

\* exitError(msg): log.error(msg); Deno.exit(1)
ExitError(msg) ==
    /\ relPc' = "exit"
    /\ relExit' = 1
    /\ relError' = msg

NonInteractiveMessage ==
    <<"Running in non-interactive mode without --yes flag. Use --yes to auto-confirm or run interactively.">>

\* meta.entryPoint
EntryPoint == <<"src/main.ts">>

VersionConstantMessage == <<"Failed to update VERSION constant in ">> \o EntryPoint

DenoJsonMessage == <<"Failed to update version in deno.json">>

TestsFailedMessage == <<"Tests failed. Please fix issues before releasing.">>

CommitFailedMessage == <<"Git commit failed. Please check git status.">>

TagFailedMessage == <<"Git tag creation failed.">>

PushFailedMessage == <<"Git push failed.">>

PushTagsFailedMessage == <<"Git push tags failed.">>

\* variant of Confirm without the else branch: a run without --yes and
\* without a terminal goes on unasked
Confirm_NoTerminalGoesOn ==
    /\ relPc = "confirm"
    /\ IF ~autoConfirm /\ isInteractive
       THEN \E answer \in BOOLEAN :
                IF answer
                THEN /\ relPc' = "entry"
                     /\ confirmed' = TRUE
                     /\ UNCHANGED <<relExit, relError>>
                ELSE /\ relPc' = "exit"
                     /\ relExit' = 0
                     /\ UNCHANGED <<relError, confirmed>>
       ELSE /\ relPc' = "entry"
            /\ confirmed' = TRUE
            /\ UNCHANGED <<relExit, relError>>
    /\ UNCHANGED <<current, request, next, nextVersion>>
    /\ UNCHANGED <<dryRun, autoConfirm, isInteractive, entryFile, denoFile, events, notes,
                   commitMessage, tag>>
    /\ UNCHANGED <<clVars, initVars>>

\* "Only prompt if interactive and not auto-confirmed": confirm() is asked in
\* an interactive session without --yes, a declined prompt ends the script
\* with Deno.exit(0); without --yes and without a terminal exitError
Confirm ==
    /\ relPc = "confirm"
    /\ IF ~autoConfirm /\ isInteractive
       THEN \E answer \in BOOLEAN :
                IF answer
                THEN /\ relPc' = "entry"
                     /\ confirmed' = TRUE
                     /\ UNCHANGED <<relExit, relError>>
                ELSE /\ relPc' = "exit"
                     /\ relExit' = 0
                     /\ UNCHANGED <<relError, confirmed>>
       ELSE IF ~autoConfirm /\ ~isInteractive
       THEN /\ ExitError(NonInteractiveMessage)
            /\ UNCHANGED confirmed
       ELSE /\ relPc' = "entry"
            /\ confirmed' = TRUE
            /\ UNCHANGED <<relExit, relError>>
    /\ UNCHANGED <<current, request, next, nextVersion>>
    /\ UNCHANGED <<dryRun, autoConfirm, isInteractive, entryFile, denoFile, events, notes,
                   commitMessage, tag>>
    /\ UNCHANGED <<clVars, initVars>>

\* variant of ReplaceVersionConstant that writes the constant into a file
\* that has none
ReplaceVersionConstant_Always(file, version) == version

\* content.replace(/(?:export )?const VERSION = "[^"]+";/, ...) on the entry
\* point: the text between the quotes becomes version; a file without the
\* constant is returned as it is
ReplaceVersionConstant(file, version) == IF file = <<>> THEN file ELSE version

\* "Updating <entryPoint>...": exitError when the replace left the content as
\* it was, else the file is written
UpdateEntryPoint ==
    /\ relPc = "entry"
    /\ LET updated == ReplaceVersionConstant(entryFile, nextVersion)
       IN  IF entryFile = updated
           THEN /\ ExitError(VersionConstantMessage)
                /\ UNCHANGED <<entryFile, events>>
           ELSE /\ entryFile' = updated
                /\ events' = Append(events, Event("write entry", TRUE))
                /\ relPc' = "deno"
                /\ UNCHANGED <<relExit, relError>>
    /\ UNCHANGED <<current, request, next, nextVersion>>
    /\ UNCHANGED <<dryRun, autoConfirm, isInteractive, confirmed, denoFile, notes, commitMessage, tag>>
    /\ UNCHANGED <<clVars, initVars>>

\* content.replace(/"version":\s*"[^"]+"/, `"version": "${nextVersion}"`) on
\* deno.json, whose "version" getProjectMeta found to be there
ReplaceJsonVersion(file, version) == version

\* "Updating deno.json...": exitError when the replace left the content as it
\* was, else the file is written
UpdateDenoJson ==
    /\ relPc = "deno"
    /\ LET updatedJson == ReplaceJsonVersion(denoFile, nextVersion)
       IN  IF denoFile = updatedJson
           THEN /\ ExitError(DenoJsonMessage)
                /\ UNCHANGED <<denoFile, events>>
           ELSE /\ denoFile' = updatedJson
                /\ events' = Append(events, Event("write deno.json", TRUE))
                /\ relPc' = "changelog"
                /\ UNCHANGED <<relExit, relError>>
    /\ UNCHANGED <<current, request, next, nextVersion>>
    /\ UNCHANGED <<dryRun, autoConfirm, isInteractive, confirmed, entryFile, notes, commitMessage, tag>>
    /\ UNCHANGED <<clVars, initVars>>

\* "Updating CHANGELOG.md...": run("deno", ["run", "-A", update-changelog.ts,
\* nextVersion]); the subprocess fails when it cannot read CHANGELOG.md or
\* does not run to its end, and release.ts warns and continues
RunUpdateChangelog ==
    /\ relPc = "changelog"
    /\ \E ran \in BOOLEAN :
        LET version == NormalizeVersion(nextVersion)
            ok == ran /\ exists
        IN  /\ versionArg' = nextVersion
            /\ op' = "update"
            /\ runs' = runs + 1
            /\ before' = changelog
            /\ IF ok
               THEN /\ changelog' = UpdatedText(changelog, version, Today)
                    /\ created' = (HeaderIndex(SplitLines(changelog), version) = 0)
                    /\ exitCode' = 0
               ELSE /\ exitCode' = 1
                    /\ UNCHANGED <<changelog, created>>
            /\ events' = Append(events, Event("update-changelog", ok))
    /\ relPc' = "check"
    /\ UNCHANGED <<original, exists, content, span>>
    /\ UNCHANGED initVars
    /\ UNCHANGED <<current, request, next, nextVersion, relExit, relError>>
    /\ UNCHANGED <<dryRun, autoConfirm, isInteractive, confirmed, entryFile, denoFile, notes,
                   commitMessage, tag>>

\* variant of RunCheck that goes on to the git operations whatever the check
\* task returned
RunCheck_IgnoresFailure ==
    /\ relPc = "check"
    /\ \E ok \in BOOLEAN :
        events' = Append(events, Event("check", ok))
    /\ relPc' = "extract"
    /\ UNCHANGED <<current, request, next, nextVersion, relExit, relError>>
    /\ UNCHANGED <<dryRun, autoConfirm, isInteractive, confirmed, entryFile, denoFile, notes,
                   commitMessage, tag>>
    /\ UNCHANGED <<clVars, initVars>>

\* "Running tests...": run("deno", ["task", "check"]), exitError when it fails
RunCheck ==
    /\ relPc = "check"
    /\ \E ok \in BOOLEAN :
        /\ events' = Append(events, Event("check", ok))
        /\ IF ok
           THEN /\ relPc' = "extract"
                /\ UNCHANGED <<relExit, relError>>
           ELSE ExitError(TestsFailedMessage)
    /\ UNCHANGED <<current, request, next, nextVersion>>
    /\ UNCHANGED <<dryRun, autoConfirm, isInteractive, confirmed, entryFile, denoFile, notes,
                   commitMessage, tag>>
    /\ UNCHANGED <<clVars, initVars>>

\* the catch branch of getChangelog: `Release ${version}`
DefaultNotes(version) == <<"Release ">> \o version

\* "Extracting changelog...": const changelog = await getChangelog(nextVersion),
\* the trimmed stdout of get-changelog.ts nextVersion, or the default message
\* when the subprocess fails
ExtractNotes ==
    /\ relPc = "extract"
    /\ \E ok \in BOOLEAN :
        LET version == NormalizeVersion(nextVersion)
            printed == IF exists THEN ExtractContent(changelog, version)
                       ELSE ReadFailedMessage
        IN  /\ events' = Append(events, Event("get-changelog", ok))
            /\ versionArg' = nextVersion
            /\ IF ok
               THEN /\ content' = printed
                    /\ span' = IF exists THEN SectionSpan(changelog, version) ELSE <<0, 0>>
                    /\ exitCode' = 0
                    /\ op' = "extract"
                    /\ notes' = Trim(printed)
               ELSE /\ exitCode' = 1
                    /\ notes' = DefaultNotes(nextVersion)
                    /\ UNCHANGED <<content, span, op>>
    /\ relPc' = "commit"
    /\ UNCHANGED <<changelog, original, exists, runs, before, created>>
    /\ UNCHANGED initVars
    /\ UNCHANGED <<current, request, next, nextVersion, relExit, relError>>
    /\ UNCHANGED <<dryRun, autoConfirm, isInteractive, confirmed, entryFile, denoFile, commitMessage, tag>>

\* variant of CommitMessage that leaves the body out
CommitMessage_SubjectOnly(version, body) == <<"chore: release v">> \o version

\* `chore: release v${nextVersion}\n\n${changelog}`
CommitMessage(version, body) ==
    <<"chore: release v">> \o version \o <<"\n", "\n">> \o body

\* variant of GitCommit in which a failed commit ends the script with code 0
GitCommit_FailureExitsZero ==
    /\ relPc = "commit"
    /\ \E ok \in BOOLEAN :
        /\ events' = Append(events, Event("commit", ok))
        /\ IF ok
           THEN /\ commitMessage' = CommitMessage(nextVersion, notes)
                /\ relPc' = "tag"
                /\ UNCHANGED <<relExit, relError>>
           ELSE /\ relPc' = "exit"
                /\ relExit' = 0
                /\ relError' = CommitFailedMessage
                /\ UNCHANGED commitMessage
    /\ UNCHANGED <<current, request, next, nextVersion>>
    /\ UNCHANGED <<dryRun, autoConfirm, isInteractive, confirmed, entryFile, denoFile, notes, tag>>
    /\ UNCHANGED <<clVars, initVars>>

\* "Committing...": run("git", ["commit", "-am", commitMessage]), exitError
\* when it fails
GitCommit ==
    /\ relPc = "commit"
    /\ \E ok \in BOOLEAN :
        /\ events' = Append(events, Event("commit", ok))
        /\ IF ok
           THEN /\ commitMessage' = CommitMessage(nextVersion, notes)
                /\ relPc' = "tag"
                /\ UNCHANGED <<relExit, relError>>
           ELSE /\ ExitError(CommitFailedMessage)
                /\ UNCHANGED commitMessage
    /\ UNCHANGED <<current, request, next, nextVersion>>
    /\ UNCHANGED <<dryRun, autoConfirm, isInteractive, confirmed, entryFile, denoFile, notes, tag>>
    /\ UNCHANGED <<clVars, initVars>>

\* `v${nextVersion}`
TagName(version) == <<"v">> \o version

\* variant of GitTag that goes on to the push whatever git tag returned
GitTag_IgnoresFailure ==
    /\ relPc = "tag"
    /\ \E ok \in BOOLEAN :
        /\ events' = Append(events, Event("tag", ok))
        /\ tag' = IF ok THEN <<TagName(nextVersion), notes>> ELSE tag
    /\ relPc' = "push"
    /\ UNCHANGED <<current, request, next, nextVersion, relExit, relError>>
    /\ UNCHANGED <<dryRun, autoConfirm, isInteractive, confirmed, entryFile, denoFile, notes,
                   commitMessage>>
    /\ UNCHANGED <<clVars, initVars>>

\* "Creating tag...": run("git", ["tag", "-a", `v${nextVersion}`, "-m",
\* changelog]), exitError when it fails
GitTag ==
    /\ relPc = "tag"
    /\ \E ok \in BOOLEAN :
        /\ events' = Append(events, Event("tag", ok))
        /\ IF ok
           THEN /\ tag' = <<TagName(nextVersion), notes>>
                /\ relPc' = "push"
                /\ UNCHANGED <<relExit, relError>>
           ELSE /\ ExitError(TagFailedMessage)
                /\ UNCHANGED tag
    /\ UNCHANGED <<current, request, next, nextVersion>>
    /\ UNCHANGED <<dryRun, autoConfirm, isInteractive, confirmed, entryFile, denoFile, notes,
                   commitMessage>>
    /\ UNCHANGED <<clVars, initVars>>

\* "Handle dry-run or push", the dry-run branch: Deno.exit(0)
DryRunStop ==
    /\ relPc = "push"
    /\ dryRun
    /\ relPc' = "exit"
    /\ relExit' = 0
    /\ UNCHANGED <<current, request, next, nextVersion, relError>>
    /\ UNCHANGED <<clVars, drvVars, initVars>>

\* variant of GitPush without the dry-run branch in front of it: the push
\* runs in dry-run mode too
GitPush_IgnoresDryRun ==
    /\ relPc = "push"
    /\ \E ok \in BOOLEAN :
        /\ events' = Append(events, Event("push", ok))
        /\ IF ok
           THEN /\ relPc' = "pushTags"
                /\ UNCHANGED <<relExit, relError>>
           ELSE ExitError(PushFailedMessage)
    /\ UNCHANGED <<current, request, next, nextVersion>>
    /\ UNCHANGED <<dryRun, autoConfirm, isInteractive, confirmed, entryFile, denoFile, notes,
                   commitMessage, tag>>
    /\ UNCHANGED <<clVars, initVars>>

\* "Pushing to remote...": run("git", ["push"]), exitError when it fails; the
\* dry-run branch before it keeps a dry run from getting here
GitPush ==
    /\ relPc = "push"
    /\ ~dryRun
    /\ \E ok \in BOOLEAN :
        /\ events' = Append(events, Event("push", ok))
        /\ IF ok
           THEN /\ relPc' = "pushTags"
                /\ UNCHANGED <<relExit, relError>>
           ELSE ExitError(PushFailedMessage)
    /\ UNCHANGED <<current, request, next, nextVersion>>
    /\ UNCHANGED <<dryRun, autoConfirm, isInteractive, confirmed, entryFile, denoFile, notes,
                   commitMessage, tag>>
    /\ UNCHANGED <<clVars, initVars>>

\* run("git", ["push", "--tags"]), exitError when it fails; after it the
\* script runs to its end and the process exits with code 0
GitPushTags ==
    /\ relPc = "pushTags"
    /\ \E ok \in BOOLEAN :
        /\ events' = Append(events, Event("push --tags", ok))
        /\ IF ok
           THEN /\ relPc' = "done"
                /\ relExit' = 0
                /\ UNCHANGED relError
           ELSE ExitError(PushTagsFailedMessage)
    /\ UNCHANGED <<current, request, next, nextVersion>>
    /\ UNCHANGED <<dryRun, autoConfirm, isInteractive, confirmed, entryFile, denoFile, notes,
                   commitMessage, tag>>
    /\ UNCHANGED <<clVars, initVars>>

----------------------------------------------------------------------------
(* The changelogs and version arguments the tools are run on *)

\* 1.0.1
VerA == <<"1", ".", "0", ".", "1">>

\* 1.0.10
VerB == <<"1", ".", "0", ".", "1", "0">>

OldDate == <<"2", "0", "2", "4", "-", "0", "1", "-", "1", "5">>

TitleLine == <<"#", " ", "C", "h", "a", "n", "g", "e", "l", "o", "g">>

\* ## [1.0.1] - 2024-01-15
DatedLineA == <<"#", "#", " ", "[">> \o VerA \o <<"]", " ", "-", " ">> \o OldDate

\* ## v1.0.10
PlainLineB == <<"#", "#", " ", "v">> \o VerB

\* ### V1.0.1
UpperLineA == <<"#", "#", "#", " ", "V">> \o VerA

\* ## [Unreleased]
UnreleasedLine == <<"#", "#", " ", "[">> \o Unreleased \o <<"]">>

\* # unreleased
LowerUnreleasedLine == <<"#", " ", "u", "n", "r", "e", "l", "e", "a", "s", "e", "d">>

ItemLine == <<"-", " ", "i", "t", "e", "m">>

\* [1.0.1]: http://x
LinkLine == <<"[">> \o VerA \o <<"]", ":", " ">> \o Http \o <<":", "/", "/", "x">>

LinePool ==
    { <<>>, TitleLine, DatedLineA, PlainLineB, UpperLineA, UnreleasedLine,
      LowerUnreleasedLine, AddedHeading, ItemLine, LinkLine }

\* the line ends of a file: LF or CRLF
LineEnds == { <<"\n">>, <<"\r", "\n">> }

\* 1.0.1, v1.0.10 and V1.0.1
VersionArgs == { VerA, <<"v">> \o VerB, <<"V">> \o VerA }

Changelogs ==
    { JoinWith(ls, eol) :
        ls \in UNION { [1..n -> LinePool] : n \in 1..MaxLines }, eol \in LineEnds }

InitChangelog ==
    /\ \/ exists = TRUE /\ changelog \in Changelogs
       \/ exists = FALSE /\ changelog = <<>>
    /\ original = changelog
    /\ versionArg \in VersionArgs
    /\ op = "none"
    /\ runs = 0
    /\ before = <<>>
    /\ created = FALSE
    /\ content = <<>>
    /\ span = <<0, 0>>
    /\ exitCode = 0

\* the flags and files of release.ts while only the version calculation, or
\* no part of release.ts, is looked at
IdleDriver ==
    /\ dryRun = FALSE
    /\ autoConfirm = FALSE
    /\ isInteractive = FALSE
    /\ confirmed = FALSE
    /\ entryFile = <<>>
    /\ denoFile = <<>>
    /\ events = <<>>
    /\ notes = <<>>
    /\ commitMessage = <<>>
    /\ tag = <<>>

\* main.ts is not run
IdleInstall ==
    /\ force = FALSE
    /\ isQuiet = FALSE
    /\ target = "directory"
    /\ isDenoProject = FALSE
    /\ targetFiles = <<>>
    /\ copied = 0
    /\ successCount = 0
    /\ errorCount = 0
    /\ initPc = "idle"
    /\ initExit = -1

IdleRelease ==
    /\ IdleDriver
    /\ IdleInstall
    /\ current = <<>>
    /\ request = <<>>
    /\ next = NoSemVer
    /\ nextVersion = <<>>
    /\ relPc = "idle"
    /\ relExit = -1
    /\ relError = <<>>

Init == InitChangelog /\ IdleRelease

Next == UpdateChangelog \/ GetChangelog

Spec == Init /\ [][Next]_vars

----------------------------------------------------------------------------
(* The versions and requests release.ts is run on *)

Numerals == { <<"0">>, <<"1">>, <<"9">>, <<"1", "0">> }

Cores ==
    { a \o <<".">> \o b \o <<".">> \o c : a \in Numerals, b \in Numerals, c \in Numerals }

\* none, -beta.1, -rc, -0.x-y
Prereleases ==
    { <<>>, <<"-", "b", "e", "t", "a", ".", "1">>, <<"-", "r", "c">>,
      <<"-", "0", ".", "x", "-", "y">> }

\* none, +b5, +exp.sha-5
Builds == { <<>>, <<"+", "b", "5">>, <<"+", "e", "x", "p", ".", "s", "h", "a", "-", "5">> }

\* versions deno.json may hold that are no semantic versions: 1.0, 01.0.0, 1.0.0-01
BadVersions ==
    { <<"1", ".", "0">>, <<"0", "1", ".", "0", ".", "0">>,
      <<"1", ".", "0", ".", "0", "-", "0", "1">> }

CurrentVersions ==
    { c \o p \o b : c \in Cores, p \in Prereleases, b \in Builds } \cup BadVersions

\* explicit targets: 0.0.1, 1.0.0, 1.0.0-rc.1, 9.10.0+b5, 10.9.1-0.x-y+exp.sha-5
ExplicitVersions ==
    { <<"0", ".", "0", ".", "1">>,
      <<"1", ".", "0", ".", "0">>,
      <<"1", ".", "0", ".", "0", "-", "r", "c", ".", "1">>,
      <<"9", ".", "1", "0", ".", "0", "+", "b", "5">>,
      <<"1", "0", ".", "9", ".", "1", "-", "0", ".", "x", "-", "y", "+", "e", "x", "p", ".", "s", "h", "a", "-", "5">> }

\* requests that are neither a keyword nor a version: not-a-version, Major,
\* 1.0.x (parseArgs turns an argument that reads as a number, such as 1.0,
\* into that number, so versionArg never holds it as written)
BadRequests ==
    { <<"n", "o", "t", "-", "a", "-", "v", "e", "r", "s", "i", "o", "n">>,
      <<"M", "a", "j", "o", "r">>,
      <<"1", ".", "0", ".", "x">> }

\* a request semver.parse accepts although it is not in canonical form: v1.0.0
LooseVersions == { <<"v", "1", ".", "0", ".", "0">> }

Requests == {Major, Minor, Patch} \cup ExplicitVersions \cup LooseVersions \cup BadRequests

IdleChangelog ==
    /\ changelog = <<>>
    /\ original = <<>>
    /\ exists = FALSE
    /\ versionArg = <<>>
    /\ op = "none"
    /\ runs = 0
    /\ before = <<>>
    /\ created = FALSE
    /\ content = <<>>
    /\ span = <<0, 0>>
    /\ exitCode = 0

InitRelease ==
    /\ current \in CurrentVersions
    /\ request \in Requests
    /\ next = NoSemVer
    /\ nextVersion = <<>>
    /\ relPc = "start"
    /\ relExit = -1
    /\ relError = <<>>
    /\ IdleChangelog
    /\ IdleDriver
    /\ IdleInstall

NextRelease == ReadCurrent \/ CalculateNext

SpecRelease == InitRelease /\ [][NextRelease]_vars

----------------------------------------------------------------------------
(* The projects and command lines a whole run of release.ts is looked at on *)

\* 1.0.0
VerOne == <<"1", ".", "0", ".", "0">>

\* 1.0.0-beta.1
VerBeta == VerOne \o <<"-", "b", "e", "t", "a", ".", "1">>

\* the "version" of deno.json: 1.0.0, 1.0.0-beta.1, and 1.0, which is no
\* semantic version
DriverVersions == { VerOne, VerBeta, <<"1", ".", "0">> }

\* patch, minor, the explicit targets 1.0.1, v1.0.10 and 1.0.0, and latest,
\* which is neither a keyword nor a version
DriverRequests ==
    { Patch, Minor, VerA, <<"v">> \o VerB, VerOne, <<"l", "a", "t", "e", "s", "t">> }

\* ## [1.0.0] - 2024-01-15
DatedLineOne == <<"#", "#", " ", "[">> \o VerOne \o <<"]", " ", "-", " ">> \o OldDate

\* CHANGELOG.md: an Unreleased section above a released one, a section of
\* 1.0.1 that is there already, released sections only, a title only
DriverChangelogs ==
    { JoinLines(<<TitleLine, UnreleasedLine, ItemLine, DatedLineOne, ItemLine>>),
      JoinLines(<<TitleLine, DatedLineA, ItemLine, <<>>, LinkLine>>),
      JoinLines(<<DatedLineOne, ItemLine>>),
      JoinLines(<<TitleLine>>) }

\* the entry point holds the version of deno.json, an older version, or no
\* VERSION constant
EntryFiles(version) == { version, <<"0", ".", "9", ".", "0">>, <<>> }

InitDriver ==
    /\ current \in DriverVersions
    /\ request \in DriverRequests
    /\ next = NoSemVer
    /\ nextVersion = <<>>
    /\ relPc = "start"
    /\ relExit = -1
    /\ relError = <<>>
    /\ dryRun \in BOOLEAN
    /\ autoConfirm \in BOOLEAN
    /\ isInteractive \in BOOLEAN
    /\ confirmed = FALSE
    /\ denoFile = current
    /\ entryFile \in EntryFiles(current)
    /\ events = <<>>
    /\ notes = <<>>
    /\ commitMessage = <<>>
    /\ tag = <<>>
    /\ \/ exists = TRUE /\ changelog \in DriverChangelogs
       \/ exists = FALSE /\ changelog = <<>>
    /\ original = changelog
    /\ versionArg = <<>>
    /\ op = "none"
    /\ runs = 0
    /\ before = <<>>
    /\ created = FALSE
    /\ content = <<>>
    /\ span = <<0, 0>>
    /\ exitCode = 0
    /\ IdleInstall

NextDriver ==
    \/ ReadCurrent
    \/ CalculateNext
    \/ Confirm
    \/ UpdateEntryPoint
    \/ UpdateDenoJson
    \/ RunUpdateChangelog
    \/ RunCheck
    \/ ExtractNotes
    \/ GitCommit
    \/ GitTag
    \/ DryRunStop
    \/ GitPush
    \/ GitPushTags

SpecDriver == InitDriver /\ [][NextDriver]_vars

----------------------------------------------------------------------------
(* Changelogs with one version heading in every format get-changelog.ts accepts *)

\* 1.0.0-rc
VerRc == <<"1", ".", "0", ".", "0", "-", "r", "c">>

\* the uppercase form of every lowercase letter
UpperOf ==
    [
      a |-> "A", b |-> "B", c |-> "C", d |-> "D", e |-> "E", f |-> "F", g |-> "G",
      h |-> "H", i |-> "I", j |-> "J", k |-> "K", l |-> "L", m |-> "M", n |-> "N",
      o |-> "O", p |-> "P", q |-> "Q", r |-> "R", s |-> "S", t |-> "T", u |-> "U",
      v |-> "V", w |-> "W", x |-> "X", y |-> "Y", z |-> "Z" ]

\* the uppercase form of a lowercase letter, any other character as it is
Upper(c) == IF c \in DOMAIN UpperOf THEN UpperOf[c] ELSE c

UpperCase(s) == [i \in 1..Len(s) |-> Upper(s[i])]

FormatVersions == {VerA, VerRc}

\* a run of n "#"
Hashes(n) == [i \in 1..n |-> "#"]

\* the heading lines for a version: level 1 to 6, with or without a space,
\* brackets, a v or V prefix and a date, the version in either letter case
HeadingShapes(v) ==
    { Hashes(n) \o ws \o (IF br THEN <<"[">> ELSE <<>>) \o p \o tok
                \o (IF br THEN <<"]">> ELSE <<>>) \o d :
        n \in 1..6, ws \in { <<>>, <<" ">> }, br \in BOOLEAN,
        p \in { <<>>, <<"v">>, <<"V">> }, tok \in { v, UpperCase(v) },
        d \in { <<>>, <<" ", "-", " ">> \o OldDate } }

\* a changelog with a heading for v: alone, or below the title and above an item
FormatChangelogs(v) ==
    { JoinLines(ls) : ls \in UNION { { <<h>>, <<TitleLine, h, ItemLine>> } :
                                        h \in HeadingShapes(v) } }

InitFormats ==
    /\ \E v \in FormatVersions :
        /\ versionArg \in { v, <<"v">> \o v }
        /\ changelog \in FormatChangelogs(v)
    /\ exists = TRUE
    /\ original = changelog
    /\ op = "none"
    /\ runs = 0
    /\ before = <<>>
    /\ created = FALSE
    /\ content = <<>>
    /\ span = <<0, 0>>
    /\ exitCode = 0
    /\ IdleRelease

NextFormats == GetChangelog

SpecFormats == InitFormats /\ [][NextFormats]_vars

----------------------------------------------------------------------------
(* src/main.ts: the init tool, which installs the release automation files *)

\* getFilesMappings: the destination paths, in the order they are copied
FileMappings ==
    << ".github/workflows/ci.yml", ".github/workflows/release.yml",
       ".github/workflows/publish.yml", "tools/release.ts", "tools/get-changelog.ts",
       "tools/get-meta.ts", "tools/update-changelog.ts" >>

Dests == { FileMappings[i] : i \in 1..Len(FileMappings) }

\* exitError(msg) of main.ts: log.error(msg); Deno.exit(1)
InstallExitError ==
    /\ initPc' = "exit"
    /\ initExit' = 1

\* "Verify target directory exists": Deno.stat(targetDir) throws or the
\* target is no directory
VerifyTarget ==
    /\ initPc = "start"
    /\ IF target = "directory"
       THEN initPc' = "confirm" /\ UNCHANGED initExit
       ELSE InstallExitError
    /\ UNCHANGED <<force, isQuiet, target, isDenoProject, targetFiles, copied, successCount,
                   errorCount>>
    /\ UNCHANGED <<clVars, relVars, drvVars>>

\* "Confirmation prompt (unless --yes or --quiet)"
ConfirmInstall ==
    /\ initPc = "confirm"
    /\ IF ~autoConfirm /\ isInteractive /\ ~isQuiet
       THEN \E answer \in BOOLEAN :
                IF answer
                THEN initPc' = "validate" /\ UNCHANGED initExit
                ELSE initPc' = "exit" /\ initExit' = 0
       ELSE IF ~autoConfirm /\ ~isInteractive
       THEN InstallExitError
       ELSE initPc' = "validate" /\ UNCHANGED initExit
    /\ UNCHANGED <<force, isQuiet, target, isDenoProject, targetFiles, copied, successCount,
                   errorCount>>
    /\ UNCHANGED <<clVars, relVars, drvVars>>

\* install: await validateDenoProject(targetDir)
ValidateDenoProject ==
    /\ initPc = "validate"
    /\ IF isDenoProject
       THEN initPc' = "conflicts" /\ UNCHANGED initExit
       ELSE InstallExitError
    /\ UNCHANGED <<force, isQuiet, target, isDenoProject, targetFiles, copied, successCount,
                   errorCount>>
    /\ UNCHANGED <<clVars, relVars, drvVars>>

\* the conflicts array of checkConflicts: the destinations that exist
ExistingDests(files) == { d \in Dests : files[d] # "absent" }

\* variant of CheckConflicts that returns the conflicts only when every
\* destination exists
CheckConflicts_AllExist(files, forced) ==
    IF ExistingDests(files) = Dests /\ ~forced THEN ExistingDests(files) ELSE {}

\* what checkConflicts returns: the conflicts without --force, else nothing
CheckConflicts(files, forced) ==
    IF ExistingDests(files) # {} /\ ~forced THEN ExistingDests(files) ELSE {}

\* install: const conflicts = await checkConflicts(...);
\* if (conflicts.length > 0) Deno.exit(1)
StopOnConflicts ==
    /\ initPc = "conflicts"
    /\ IF CheckConflicts(targetFiles, force) # {}
       THEN InstallExitError
       ELSE initPc' = "copy" /\ UNCHANGED initExit
    /\ UNCHANGED <<force, isQuiet, target, isDenoProject, targetFiles, copied, successCount,
                   errorCount>>
    /\ UNCHANGED <<clVars, relVars, drvVars>>

\* one round of "for (const file of files)": copyFile writes the package's
\* file to the destination, or throws and the error is counted
CopyFile ==
    /\ initPc = "copy"
    /\ copied < Len(FileMappings)
    /\ copied' = copied + 1
    /\ \E ok \in BOOLEAN :
        IF ok
        THEN /\ targetFiles' = [targetFiles EXCEPT ![FileMappings[copied + 1]] = "package"]
             /\ successCount' = successCount + 1
             /\ UNCHANGED errorCount
        ELSE /\ errorCount' = errorCount + 1
             /\ UNCHANGED <<targetFiles, successCount>>
    /\ UNCHANGED <<force, isQuiet, target, isDenoProject, initPc, initExit>>
    /\ UNCHANGED <<clVars, relVars, drvVars>>

\* after the loop: exitError when a copy failed, else the script runs to its
\* end
FinishInstall ==
    /\ initPc = "copy"
    /\ copied = Len(FileMappings)
    /\ IF errorCount > 0
       THEN InstallExitError
       ELSE initPc' = "done" /\ initExit' = 0
    /\ UNCHANGED <<force, isQuiet, target, isDenoProject, targetFiles, copied, successCount,
                   errorCount>>
    /\ UNCHANGED <<clVars, relVars, drvVars>>

\* the destinations of at most MaxExisting files are taken in the target
TargetStates ==
    { [d \in Dests |-> IF d \in taken THEN "own" ELSE "absent"] :
        taken \in { t \in SUBSET Dests : Cardinality(t) <= MaxExisting } }

InitInstall ==
    /\ force \in BOOLEAN
    /\ isQuiet \in BOOLEAN
    /\ autoConfirm \in BOOLEAN
    /\ isInteractive \in BOOLEAN
    /\ target \in {"directory", "file", "missing"}
    /\ isDenoProject \in BOOLEAN
    /\ targetFiles \in TargetStates
    /\ copied = 0
    /\ successCount = 0
    /\ errorCount = 0
    /\ initPc = "start"
    /\ initExit = -1
    /\ IdleChangelog
    /\ dryRun = FALSE
    /\ confirmed = FALSE
    /\ entryFile = <<>>
    /\ denoFile = <<>>
    /\ events = <<>>
    /\ notes = <<>>
    /\ commitMessage = <<>>
    /\ tag = <<>>
    /\ current = <<>>
    /\ request = <<>>
    /\ next = NoSemVer
    /\ nextVersion = <<>>
    /\ relPc = "idle"
    /\ relExit = -1
    /\ relError = <<>>

NextInstall ==
    \/ VerifyTarget
    \/ ConfirmInstall
    \/ ValidateDenoProject
    \/ StopOnConflicts
    \/ CopyFile
    \/ FinishInstall

SpecInstall == InitInstall /\ [][NextInstall]_vars

----------------------------------------------------------------------------
(* Notions the properties are stated in *)

\* the lines of the changelog a get-changelog run read
DocLines == SplitLines(changelog)

\* the lines of the changelog before and after the last update-changelog run
BeforeLines == SplitLines(before)

AfterLines == SplitLines(changelog)

\* the lines get-changelog wrote
ContentLines == SplitLines(content)

\* the version the tool works with
Version == NormalizeVersion(versionArg)

\* a get-changelog run on a readable changelog has finished
Extracted == op = "extract" /\ exists

\* an update-changelog run on a readable changelog has finished
Updated == op = "update" /\ exists /\ exitCode = 0

\* the versions the changelogs of the model have sections for
KnownVersions == {VerA, VerB}

\* the line is a heading for exactly this version: hashes, optional
\* whitespace, optional "[", optional v or V, the version, and then the end
\* of the line, a "]" or whitespace
HeadingFor(line, ver) ==
    \E t \in HeadMatches(line, ver, TRUE) :
        LET after == t[1] + t[2] + t[3] + t[4] + Len(ver) + 1
        IN  after > Len(line) \/ line[after] = "]" \/ IsWS(line[after])

\* the line is the heading of some version's section
VersionHeading(line) == \E w \in KnownVersions : HeadingFor(line, w)

\* index of the first heading for exactly this version, 0 when there is none
FirstHeadingFor(lines, ver) == FirstIndex(lines, LAMBDA l : HeadingFor(l, ver))

\* number of leading "#" of a line
Level(line) == HashCount(line)

\* the line is a Markdown heading of level 1 to 6: the hashes, whitespace, text
IsHeading(line) ==
    /\ Level(line) \in 1..6
    /\ Len(line) > Level(line)
    /\ IsWS(line[Level(line) + 1])
    /\ \E i \in (Level(line) + 1)..Len(line) : ~IsWS(line[i])

\* where the section that starts at line i ends: the index of the next
\* heading of the same or a shallower level, or one past the last line
SectionEnd(lines, i) ==
    LET Closing == { j \in (i + 1)..Len(lines) :
                        IsHeading(lines[j]) /\ Level(lines[j]) <= Level(lines[i]) }
    IN  IF Closing = {} THEN Len(lines) + 1
        ELSE CHOOSE j \in Closing : \A k \in Closing : j <= k

\* the lines of a section
SectionLines(lines, i) == SubSeq(lines, i, SectionEnd(lines, i) - 1)

Range(f) == { f[i] : i \in DOMAIN f }

\* the text get-changelog prints for the section that starts at line i
SectionText(lines, i) == StripLinkRefs(Trim(JoinLines(SectionLines(lines, i))))

\* the word occurs in the line, in any letter case
ContainsWord(line, word) == \E i \in 1..Len(line) : LitAtI(line, i, word)

\* the "#" prefix of a heading line with the whitespace that follows it
HashPrefix(line) == SubSeq(line, 1, Level(line) + WSRun(line, Level(line) + 1))

\* <prefix>[<version>] - <today>
CanonicalHeader(prefix, ver, today) ==
    prefix \o <<"[">> \o ver \o <<"]", " ", "-", " ">> \o today

----------------------------------------------------------------------------
(* Properties of get-changelog.ts *)

\* the line is a reference-style link definition: [<digits and dots>]: <URL>
IsLinkDefinition(line) == LinkRefAt(<<"\n", "\n">> \o line, 1)

\* line m of the section that starts at line i belongs to the link
\* definitions that close the section: a block that follows a blank line and
\* holds nothing but link definitions and blank lines up to the section's end
InClosingLinks(lines, i, m) ==
    \E b \in (i + 2)..m :
        /\ IsLinkDefinition(lines[b])
        /\ IsBlank(lines[b - 1])
        /\ \A k \in b..(SectionEnd(lines, i) - 1) :
                IsLinkDefinition(lines[k]) \/ IsBlank(lines[k])

\* the lines the extraction of the section that starts at line i has to
\* return: all but its blank lines and its closing link definitions
OwnLines(lines, i) ==
    { lines[m] : m \in { k \in i..(SectionEnd(lines, i) - 1) :
                            ~IsBlank(lines[k]) /\ ~InClosingLinks(lines, i, k) } }

\* C1: when the changelog has sections for two different versions at the
\* same heading level, the section extracted for one of them contains every
\* line of that version's section, deeper subheadings and their content
\* included, and no line of the other version's section, whichever of the
\* two comes first.
C1_SectionIsolation ==
    Extracted =>
        \A v \in KnownVersions, w \in KnownVersions :
            LET lines == DocLines
                out == Range(ContentLines)
                i == FirstHeadingFor(lines, v)
                j == FirstHeadingFor(lines, w)
            IN  (/\ Version = v
                 /\ v # w
                 /\ i # 0
                 /\ j # 0
                 /\ Level(lines[i]) = Level(lines[j]))
                => /\ OwnLines(lines, i) \subseteq out
                   /\ \A l \in Range(SectionLines(lines, j)) \ Range(SectionLines(lines, i)) :
                        l \notin out

\* no line of the changelog matches the version, and line u is the first
\* Unreleased heading
UnreleasedFallback(lines, u) ==
    /\ u # 0
    /\ u = FirstIndex(lines, LAMBDA l : ContainsWord(l, Unreleased) /\ unreleasedRxTest(l))
    /\ \A k \in 1..Len(lines) : ~hdrRxTest(lines[k], Version)

\* the Unreleased section was extracted from these lines, and nothing of a
\* following section with a heading that satisfies Closes
FallbackHolds(lines, out, Closes(_, _)) ==
    \A u \in 1..Len(lines) :
        UnreleasedFallback(lines, u)
        => /\ content = SectionText(lines, u)
           /\ content # NotFoundMessage(Version)
           /\ out[1] = lines[u]
           /\ Len(out) <= SectionEnd(lines, u) - u
           /\ \A k \in (u + 1)..Len(lines) :
                (VersionHeading(lines[k]) /\ Closes(lines[k], lines[u]))
                => k - u + 1 > Len(out)

\* C9 as stated: when no heading matches the version but an Unreleased
\* heading exists, the result is the Unreleased section, not the not-found
\* message, and it contains no line of any following version section.
C9_UnreleasedFallbackAnyLevel ==
    Extracted => FallbackHolds(DocLines, ContentLines, LAMBDA h, u : TRUE)

\* C9 as amended: when no heading matches the version but an Unreleased
\* heading exists, the result is the Unreleased section, from its heading
\* line to the line before the next heading of the same or a shallower
\* level, not the not-found message, and it contains no line of a following
\* version section whose heading is of the same or a shallower level.
C9_UnreleasedFallback ==
    Extracted => FallbackHolds(DocLines, ContentLines,
                               LAMBDA h, u : IsHeading(h) /\ Level(h) <= Level(u))

\* C9 witness: the Unreleased section was extracted from a changelog in which
\* a version section follows it
C9_Witness ==
    /\ Extracted
    /\ Version = VerB
    /\ DocLines = <<UnreleasedLine, ItemLine, DatedLineA>>
    /\ ContentLines = <<UnreleasedLine, ItemLine>>

\* C10: the section that starts at a heading of level L ends at the first
\* later heading of level <= L, or at the end of the document; a heading of
\* level > L never ends it; a section with no body yields its heading line.
C10_SectionBoundary ==
    (Extracted /\ span[1] # 0)
    => LET lines == DocLines
           start == span[1]
           end == span[2]
           L == Level(lines[start])
       IN  /\ start < end
           /\ end <= Len(lines) + 1
           /\ end <= Len(lines) => IsHeading(lines[end]) /\ Level(lines[end]) <= L
           /\ \A k \in (start + 1)..(end - 1) :
                ~(IsHeading(lines[k]) /\ Level(lines[k]) <= L)
           /\ \A k \in (start + 1)..Len(lines) :
                (IsHeading(lines[k]) /\ Level(lines[k]) > L) => end # k
           /\ content = StripLinkRefs(Trim(JoinLines(SubSeq(lines, start, end - 1))))
           /\ end = start + 1 => content = lines[start]

\* C10 witness: a deeper heading stayed inside the section and a heading of
\* the same level ended it
C10_Witness ==
    /\ Extracted
    /\ Version = VerA
    /\ DocLines = <<DatedLineA, AddedHeading, PlainLineB>>
    /\ span = <<1, 3>>
    /\ ContentLines = <<DatedLineA, AddedHeading>>

----------------------------------------------------------------------------
(* Properties of update-changelog.ts *)

\* the requested version without a v or V prefix
WithoutVPrefix(arg) ==
    IF arg # <<>> /\ arg[1] \in {"v", "V"} THEN Tail(arg) ELSE arg

\* index of the first line that matches the version, 0 when there is none
FirstVersionLine(lines) == FirstIndex(lines, LAMBDA l : versionRxTest(l, Version))

\* index of the first Unreleased heading, 0 when there is none
FirstUnreleasedLine(lines) ==
    FirstIndex(lines, LAMBDA l : ContainsWord(l, Unreleased) /\ unreleasedLineTest(l))

\* C2: when a heading line matches the version, with or without brackets,
\* v or V prefix and date, the first such line becomes exactly
\* <same # prefix>[<version>] - <today>, the version written as requested
\* with no v or V prefix, and nothing is created.
C2_ExistingHeaderRewritten ==
    Updated =>
        LET lines == BeforeLines
            h == FirstVersionLine(lines)
        IN  h # 0
            => /\ AfterLines = [lines EXCEPT ![h] =
                    CanonicalHeader(HashPrefix(lines[h]), WithoutVPrefix(versionArg), Today)]
               /\ created = FALSE

SevenLines(ver, today) ==
    << <<>>,
       <<"#", "#", " ", "[">> \o ver \o <<"]", " ", "-", " ">> \o today,
       <<>>,
       <<"#", "#", "#", " ", "A", "d", "d", "e", "d">>,
       <<>>,
       <<"-", " ", "I", "n", "i", "t", "i", "a", "l", " ", "r", "e", "l", "e", "a", "s", "e">>,
       <<>> >>

\* a level 1 heading: "#" and whitespace
LevelOne(line) == Level(line) = 1 /\ Len(line) >= 2 /\ IsWS(line[2])

\* where a new section goes: before the first non-blank line after the first
\* level 1 heading (after the last line when only blank lines follow it),
\* before the first line when there is no level 1 heading
NewSectionPlace(lines) ==
    LET t == FirstIndex(lines, LAMBDA l : LevelOne(l))
        NonBlank == { k \in (t + 1)..Len(lines) : ~IsBlank(lines[k]) }
    IN  IF t = 0 THEN 1
        ELSE IF NonBlank = {} THEN Len(lines) + 1
        ELSE CHOOSE k \in NonBlank : \A m \in NonBlank : k <= m

C5_UpdateIdempotent ==
    (Updated /\ runs >= 2) => changelog = before

\* version a precedes version b: both are semantic versions and a's
\* MAJOR.MINOR.PATCH is the lower one
Precedes(a, b) ==
    /\ SemverValid(a) /\ SemverValid(b)
    /\ LET x == SemverParse(a)
           y == SemverParse(b)
       IN  \/ x.major < y.major
           \/ x.major = y.major /\ x.minor < y.minor
           \/ x.major = y.major /\ x.minor = y.minor /\ x.patch < y.patch

\* the last run inserted the seven lines of a new section so that its header
\* is line n of the result
InsertedAt(n) ==
    /\ n >= 2
    /\ n + 5 <= Len(AfterLines)
    /\ SubSeq(AfterLines, n - 1, n + 5) = SevenLines(Version, Today)
    /\ SubSeq(AfterLines, 1, n - 2) \o SubSeq(AfterLines, n + 6, Len(AfterLines))
            = BeforeLines

\* C11: on the synthesis path the new header ## [<version>] - <today> stands
\* above every header of an older version the document already had.
C11_NewHeaderAboveOlder ==
    (Updated /\ created)
    => /\ \E n \in 1..Len(AfterLines) : InsertedAt(n)
       /\ \A n \in 1..Len(AfterLines), k \in 1..Len(AfterLines) :
            (/\ InsertedAt(n)
             /\ \E w \in KnownVersions : Precedes(w, Version) /\ HeadingFor(AfterLines[k], w))
            => n < k

\* the line the last run had to replace: the first line that matches the
\* version, else the first Unreleased heading, 0 when there is neither
ReplacedLine(lines) ==
    IF FirstVersionLine(lines) # 0 THEN FirstVersionLine(lines)
    ELSE FirstUnreleasedLine(lines)

\* C12: apart from the one replaced heading line, or the seven inserted
\* lines, every line of the document is in the result, unchanged and in the
\* same order: no line is removed and no other line is altered.
C12_UpdateFrame ==
    Updated =>
        LET lines == BeforeLines
            h == ReplacedLine(lines)
        IN  IF h # 0
            THEN /\ Len(AfterLines) = Len(lines)
                 /\ \A k \in 1..Len(lines) : k # h => AfterLines[k] = lines[k]
            ELSE \E n \in 1..Len(AfterLines) : InsertedAt(n)

\* C12 witness: the header of a CRLF document was replaced between two lines
\* that stayed as they were
C12_Witness ==
    /\ Updated
    /\ Version = VerA
    /\ before = JoinWith(<<TitleLine, DatedLineA, ItemLine>>, <<"\r", "\n">>)
    /\ AfterLines = <<TitleLine, CanonicalHeader(<<"#", "#", " ">>, VerA, Today), ItemLine>>

\* the last line of the section that starts at line i that the extraction
\* has to return: neither blank nor one of the closing link definitions
LastOwnLine(lines, i) ==
    LET Own == { k \in i..(SectionEnd(lines, i) - 1) :
                    ~IsBlank(lines[k]) /\ ~InClosingLinks(lines, i, k) }
    IN  CHOOSE k \in Own : \A m \in Own : m <= k

\* C15: link definitions are stripped only as the block that closes the
\* trimmed section text (after a blank line, nothing but link definitions up
\* to the end); every section line before that block is returned unchanged.
C15_OnlyClosingLinksStripped ==
    (Extracted /\ span[1] # 0)
    => LET out == ContentLines
           kept == SubSeq(DocLines, span[1], LastOwnLine(DocLines, span[1]))
       IN  /\ Len(out) >= Len(kept)
           /\ SubSeq(out, 1, Len(kept)) = kept
           /\ \A k \in (Len(kept) + 1)..Len(out) : IsBlank(out[k])

\* the starts of a heading the header matcher accepts for a version: 1 to 6
\* "#", an optional space, an optional "[" and an optional v before the version
HeadingStarts(v) ==
    { Hashes(n) \o ws \o lb \o p \o v :
        n \in 1..6, ws \in { <<>>, <<" ">> }, lb \in { <<>>, <<"[">> },
        p \in { <<>>, <<"v">> } }

\* the line matches the version as a heading, in any letter case
MatchesVersion(line, v) ==
    \E h \in HeadingStarts(v) :
        /\ Len(h) <= Len(line)
        /\ UpperCase(SubSeq(line, 1, Len(h))) = UpperCase(h)

\* C16: a heading of any level 1 to 6 matches the version whether or not
\* the version is bracketed, carries a v or V prefix or is followed by
\* " - YYYY-MM-DD", and in any letter case; the extraction returns the
\* first matching heading line as it is written as the first line of its
\* result.
C16_FormatTolerantMatch ==
    Extracted =>
        \A k \in 1..Len(DocLines) :
            /\ DocLines[k] \in HeadingShapes(Version)
                => /\ content # NotFoundMessage(Version)
                   /\ span[1] \in 1..k
            /\ (/\ MatchesVersion(DocLines[k], Version)
                /\ \A j \in 1..(k - 1) : ~MatchesVersion(DocLines[j], Version))
                => /\ span[1] = k
                   /\ ContentLines[1] = DocLines[k]

\* C16 witness: the level 6, bracketed, V-prefixed, uppercase, dated heading
\* of 1.0.0-rc was returned as it is written
C16_Witness ==
    /\ Extracted
    /\ versionArg = VerRc
    /\ DocLines = << TitleLine,
                     Hashes(6) \o <<" ", "[", "V">> \o UpperCase(VerRc)
                        \o <<"]", " ", "-", " ">> \o OldDate,
                     ItemLine >>
    /\ ContentLines = SubSeq(DocLines, 2, 3)

\* the line is an Unreleased heading: 1 to 6 "#", an optional space, an
\* optional "[" and the word Unreleased in any letter case
UnreleasedHeading(line) ==
    \E n \in 1..6, ws \in { <<>>, <<" ">> }, lb \in { <<>>, <<"[">> } :
        LET h == Hashes(n) \o ws \o lb \o Unreleased
        IN  Len(h) <= Len(line) /\ UpperCase(SubSeq(line, 1, Len(h))) = UpperCase(h)

\* the text occurs in the message
Names(message, text) == \E i \in 1..Len(message) : LitAt(message, i, text)

\* C17: the extraction never fails.  When the document has neither a heading
\* for the version nor an Unreleased heading (the empty document included),
\* it prints a not-found message that names the requested version; when the
\* changelog cannot be read it prints a message; the exit code is 0 in both
\* cases, as after every extraction.
C17_ExtractNeverFails ==
    op = "extract"
    => /\ exitCode = 0
       /\ content # <<>>
       /\ ~exists => content = ReadFailedMessage
       /\ (/\ exists
           /\ \A k \in 1..Len(DocLines) :
                ~MatchesVersion(DocLines[k], Version) /\ ~UnreleasedHeading(DocLines[k]))
          => /\ content = NotFoundMessage(Version)
             /\ Names(content, WithoutVPrefix(versionArg))
             /\ span = <<0, 0>>

\* C17 witness: the not-found message for 1.0.10 was printed for the empty
\* document
C17_Witness ==
    /\ op = "extract"
    /\ exists
    /\ changelog = <<>>
    /\ versionArg = <<"v">> \o VerB
    /\ content = NotFoundMessage(VerB)
    /\ exitCode = 0

----------------------------------------------------------------------------
(* Properties of update-changelog.ts followed by get-changelog.ts *)

\* get-changelog ran after at least one update-changelog run for the same
\* version argument
UpdatedThenExtracted == Extracted /\ runs >= 1

\* the first update-changelog run converted the Unreleased heading at line u
\* of the original document
ConvertedUnreleased(u) ==
    LET lines == SplitLines(original)
    IN  /\ u # 0
        /\ u = FirstUnreleasedLine(lines)
        /\ FirstVersionLine(lines) = 0

\* the heading line the last update-changelog run wrote: the replaced line,
\* or the header of the section it inserted
WrittenHeadings ==
    LET h == ReplacedLine(BeforeLines)
    IN  IF h # 0 THEN {AfterLines[h]}
        ELSE { AfterLines[n] : n \in { m \in 1..Len(AfterLines) : InsertedAt(m) } }

\* C13: after an update for a version, the extraction for that version
\* returns a section whose first line is the heading the update wrote for
\* the version, never the not-found message and never a section headed
\* Unreleased; when the update converted an Unreleased heading, the section
\* contains the former Unreleased body.
C13_UpdateThenExtract ==
    UpdatedThenExtracted
    => LET out == ContentLines
           lines == SplitLines(original)
       IN  /\ content # NotFoundMessage(Version)
           /\ out[1] \in WrittenHeadings
           /\ ~ContainsWord(out[1], Unreleased)
           /\ \A u \in 1..Len(lines) :
                ConvertedUnreleased(u)
                => OwnLines(lines, u) \ {lines[u]} \subseteq Range(out)

\* the three ways to write the version of the last run: x, vx and Vx
Spellings == { p \o WithoutVPrefix(versionArg) : p \in { <<>>, <<"v">>, <<"V">> } }

\* what get-changelog.ts prints for this document when run with arg
ExtractedFor(doc, arg) == ExtractContent(doc, NormalizeVersion(arg))

\* what update-changelog.ts writes for this document when run with arg
UpdatedFor(doc, arg) == UpdatedText(doc, NormalizeVersion(arg), Today)

\* C14: a leading v or V of the version argument is ignored: the extraction
\* and the update give for x, vx and Vx what they gave for the argument of
\* the run.
C14_VPrefixIgnored ==
    /\ Extracted => \A arg \in Spellings : ExtractedFor(changelog, arg) = content
    /\ Updated => \A arg \in Spellings : UpdatedFor(before, arg) = changelog

\* the lines that match the version as a heading
VersionMatches(lines) == { k \in 1..Len(lines) : MatchesVersion(lines[k], Version) }

\* C25: when a line of the document matches the version as a heading, the
\* extraction starts at the first such line, also below an Unreleased
\* heading, and the update leaves every Unreleased heading as it is; an
\* Unreleased heading is the start only when no line matches the version.
C25_VersionBeforeUnreleased ==
    /\ Extracted =>
        /\ VersionMatches(DocLines) # {} =>
            /\ span[1] \in VersionMatches(DocLines)
            /\ \A k \in VersionMatches(DocLines) : span[1] <= k
        /\ (span[1] # 0 /\ span[1] \notin VersionMatches(DocLines)) =>
            /\ UnreleasedHeading(DocLines[span[1]])
            /\ VersionMatches(DocLines) = {}
    /\ Updated =>
        (VersionMatches(BeforeLines) # {} =>
            /\ Len(AfterLines) = Len(BeforeLines)
            /\ \A k \in 1..Len(BeforeLines) :
                (UnreleasedHeading(BeforeLines[k]) /\ k \notin VersionMatches(BeforeLines))
                    => AfterLines[k] = BeforeLines[k])

\* an extraction and an update that found the version heading below an
\* Unreleased heading
C25_Witness ==
    /\ Extracted
    /\ runs > 0
    /\ \E u \in 1..Len(BeforeLines) :
        /\ UnreleasedHeading(BeforeLines[u])
        /\ \E k \in VersionMatches(BeforeLines) : u < k
    /\ \E u \in 1..Len(DocLines) :
        /\ UnreleasedHeading(DocLines[u])
        /\ u < span[1]
        /\ span[1] \in VersionMatches(DocLines)

\* the line is a heading of a longer version that starts with v: v is
\* followed by a character that continues a version
MerelyStartsWith(line, v) ==
    \E h \in HeadingStarts(v) :
        /\ Len(h) < Len(line)
        /\ UpperCase(SubSeq(line, 1, Len(h))) = UpperCase(h)
        /\ \/ IsDigit(line[Len(h) + 1])
           \/ line[Len(h) + 1] \in Letters \cup {".", "-", "+"}

\* C27: the heading the extraction starts at, and the heading the update
\* rewrites, is never the heading of a longer version that merely starts
\* with the requested one.
C27_ExactVersionMatch ==
    /\ Extracted =>
        (span[1] # 0 => ~MerelyStartsWith(DocLines[span[1]], Version))
    /\ Updated =>
        (Len(AfterLines) = Len(BeforeLines) =>
            \A k \in 1..Len(BeforeLines) :
                AfterLines[k] # BeforeLines[k] => ~MerelyStartsWith(BeforeLines[k], Version))

----------------------------------------------------------------------------
(* Properties of the version calculation of release.ts *)

\* release.ts has calculated next and nextVersion
Calculated == relPc = "confirm"

\* a semantic version in canonical form: MAJOR.MINOR.PATCH[-prerelease][+build]
IsSemVerText(s) ==
    /\ SemverValid(s)
    /\ s = Trim(s)
    /\ s # <<>> /\ IsDigit(s[1])

\* C6: for a bump keyword the named component is the current one plus 1,
\* every less significant component is 0, every more significant one is
\* unchanged and the prerelease list is empty, also when the current version
\* carries a prerelease: 1.0.0-beta.1 bumped by patch gives 1.0.1.
C6_KeywordBump ==
    (Calculated /\ IsBumpKeyword(request))
    => LET cur == SemverParse(current)
       IN  /\ request = Major =>
                next.major = cur.major + 1 /\ next.minor = 0 /\ next.patch = 0
           /\ request = Minor =>
                next.major = cur.major /\ next.minor = cur.minor + 1 /\ next.patch = 0
           /\ request = Patch =>
                next.major = cur.major /\ next.minor = cur.minor /\ next.patch = cur.patch + 1
           /\ next.prerelease = <<>>
           /\ nextVersion = SemverFormat(next)
           /\ \A i \in 1..Len(nextVersion) :
                nextVersion[i] = "-" => \E j \in 1..(i - 1) : nextVersion[j] = "+"

\* C6 witness: 1.0.0-beta.1 bumped by patch gave 1.0.1
C6_Witness ==
    /\ Calculated
    /\ current = <<"1", ".", "0", ".", "0", "-", "b", "e", "t", "a", ".", "1">>
    /\ request = Patch
    /\ nextVersion = <<"1", ".", "0", ".", "1">>

\* C7: an explicit version that is valid is taken as it is, its prerelease
\* kept, so that the formatted result equals the request, whatever the
\* current version is: lower, equal and higher targets are all accepted.
C7_ExplicitPassThrough ==
    (/\ relPc \notin {"start", "calculate"}
     /\ SemverValid(current)
     /\ ~IsBumpKeyword(request)
     /\ IsSemVerText(request))
    => /\ Calculated
       /\ relExit = -1
       /\ nextVersion = request
       /\ next.prerelease = SemverParse(request).prerelease

\* C7 witness: 1.0.0-rc.1 was taken as it is although the current version,
\* 9.10.0, is higher
C7_Witness ==
    /\ Calculated
    /\ current = <<"9", ".", "1", "0", ".", "0">>
    /\ request = <<"1", ".", "0", ".", "0", "-", "r", "c", ".", "1">>
    /\ nextVersion = request
    /\ Len(next.prerelease) = 2

\* C8: a keyword bump drops build metadata: the formatted next version has no
\* +build part, also when the current version carries build metadata.
C8_BumpDropsBuild ==
    (Calculated /\ IsBumpKeyword(request))
    => /\ next.build = <<>>
       /\ \A i \in 1..Len(nextVersion) : nextVersion[i] # "+"

----------------------------------------------------------------------------
(* Properties of a whole run of release.ts *)

\* the subprocess runs of the given step so far
RunsOf(step) == { i \in 1..Len(events) : events[i].step = step }

\* C19: in dry-run mode release.ts never runs git push or git push --tags;
\* once the tag is created the commit is there too, nothing but the exit is
\* left to do, and the exit code is 0.
C19_DryRunNeverPushes ==
    dryRun =>
        /\ RunsOf("push") = {}
        /\ RunsOf("push --tags") = {}
        /\ tag # <<>> =>
            /\ commitMessage # <<>>
            /\ relPc \in {"push", "exit"}
            /\ relPc = "exit" => relExit = 0

\* a dry run that has created the commit and the tag and has exited
C19_Witness ==
    /\ dryRun
    /\ relPc = "exit"
    /\ commitMessage # <<>>
    /\ tag # <<>>

\* the steps of a release in the order the claim gives them, the extraction
\* of the release notes being the step before the commit
StepOrder ==
    <<"write entry", "write deno.json", "update-changelog", "check", "get-changelog",
      "commit", "tag", "push", "push --tags">>

\* the given step ran and succeeded
Succeeded(step) == \E i \in RunsOf(step) : events[i].ok

\* C20: the steps of a release happen in the order entry point, deno.json,
\* CHANGELOG.md, check task, commit, tag, push, push --tags, none of them
\* twice and none before the one in front of it; the commit runs only after
\* a successful check task, the tag only after a successful commit, the push
\* and the push of the tags only after a successful tag.
C20_StepOrder ==
    /\ Len(events) <= Len(StepOrder)
    /\ \A i \in 1..Len(events) : events[i].step = StepOrder[i]
    /\ RunsOf("commit") # {} => Succeeded("check")
    /\ RunsOf("tag") # {} => Succeeded("commit")
    /\ RunsOf("push") # {} => Succeeded("tag")
    /\ RunsOf("push --tags") # {} => Succeeded("tag") /\ Succeeded("push")

\* a release that ran every step up to the push of the tags
C20_Witness ==
    /\ relPc = "done"
    /\ Len(events) = Len(StepOrder)
    /\ Succeeded("push --tags")

\* the subprocess runs that reported failure
FailedRuns == { i \in 1..Len(events) : ~events[i].ok }

\* the subprocesses whose failure release.ts answers with exitError
AbortingSteps == {"check", "commit", "tag", "push", "push --tags"}

\* C21 as stated: after any subprocess reported failure, the changelog update
\* and the changelog extraction included, no later step is executed: the
\* failed run is the last entry of the log and the script has exited with an
\* error.
C21_AnyFailureAborts ==
    \A i \in FailedRuns :
        /\ i = Len(events)
        /\ relPc = "exit"
        /\ relExit = 1

\* C21 as amended: after the check task, git commit, git tag, git push or
\* git push --tags reported failure, no later step is executed and the script
\* has exited with code 1; a failed changelog update or changelog extraction
\* does not end the run.
C21_FailureAborts ==
    \A i \in FailedRuns :
        events[i].step \in AbortingSteps =>
            /\ i = Len(events)
            /\ relPc = "exit"
            /\ relExit = 1

\* git tag failed after the check task and the commit succeeded
C21_Witness ==
    /\ Succeeded("check")
    /\ Succeeded("commit")
    /\ \E i \in FailedRuns : events[i].step = "tag"
    /\ relPc = "exit"

\* C22: the release notes are extracted at most once, and only after the
\* changelog update ran; a successful extraction yields the section of the
\* next version as CHANGELOG.md holds it after the update, which begins with
\* the heading of that version when the update succeeded; the commit message
\* is "chore: release v<next>", an empty line and these notes, and the tag
\* v<next> is annotated with the same notes.
C22_NotesUsedTwice ==
    /\ Cardinality(RunsOf("get-changelog")) <= 1
    /\ \A i \in RunsOf("get-changelog") : \E j \in RunsOf("update-changelog") : j < i
    /\ Succeeded("get-changelog") =>
        /\ exists => notes = Trim(ExtractContent(changelog, nextVersion))
        /\ Succeeded("update-changelog") =>
                MatchesVersion(SplitLines(notes)[1], nextVersion)
    /\ commitMessage # <<>> =>
        /\ RunsOf("get-changelog") # {}
        /\ commitMessage = <<"chore: release v">> \o nextVersion \o <<"\n", "\n">> \o notes
    /\ tag # <<>> =>
        /\ RunsOf("get-changelog") # {}
        /\ tag = << <<"v">> \o nextVersion, notes >>

\* the commit and the tag were made with the section the update wrote
C22_Witness ==
    /\ Succeeded("update-changelog")
    /\ Succeeded("get-changelog")
    /\ commitMessage # <<>>
    /\ tag # <<>>

\* C23: when the entry point holds no VERSION constant, no step of
\* release.ts writes the entry point, deno.json or CHANGELOG.md, runs a
\* subprocess or makes a commit or a tag, and the step that updates the entry
\* point ends the script with code 1 and the message "Failed to update
\* VERSION constant in <entry point>".
C23_NoVersionConstant ==
    [][entryFile = <<>> =>
        /\ UNCHANGED <<entryFile, denoFile, changelog, events, commitMessage, tag>>
        /\ relPc = "entry" =>
            /\ relPc' = "exit"
            /\ relExit' = 1
            /\ relError' = <<"Failed to update VERSION constant in ">> \o EntryPoint]_vars

\* a confirmed run ended at an entry point without the constant
C23_Witness ==
    /\ entryFile = <<>>
    /\ confirmed
    /\ relPc = "exit"
    /\ relExit = 1
    /\ relError = VersionConstantMessage

----------------------------------------------------------------------------
(* Properties of the init tool *)

\* C24: without --force, while a destination holds a file of the project no
\* step of the init tool creates or overwrites a file of the target, and the
\* conflict check ends the tool with code 1.
C24_ConflictsStopInstall ==
    [][(~force /\ \E d \in Dests : targetFiles[d] = "own") =>
        /\ UNCHANGED targetFiles
        /\ initPc = "conflicts" => initPc' = "exit" /\ initExit' = 1]_vars

\* a run without --force that got to the conflict check with one destination
\* taken and another free, and was ended there
C24_Witness ==
    /\ ~force
    /\ autoConfirm
    /\ target = "directory"
    /\ isDenoProject
    /\ \E d \in Dests : targetFiles[d] = "own"
    /\ \E d \in Dests : targetFiles[d] = "absent"
    /\ initPc = "exit"
    /\ initExit = 1

\* C26: a run with an explicit target equal to the version that deno.json
\* and the VERSION constant of the entry point hold is not ended by the step
\* that updates the two files.
C26_EqualTargetAccepted ==
    (/\ ~IsBumpKeyword(request)
     /\ nextVersion = current
     /\ entryFile = current
     /\ denoFile = current)
        => ~(relPc = "exit" /\ relError \in {VersionConstantMessage, DenoJsonMessage})

\* the version-file step ended the script with an error
VersionFilesFailed ==
    relPc = "exit" /\ relError \in {VersionConstantMessage, DenoJsonMessage}

\* C28: when the step that rewrites the entry point and deno.json ends the
\* script with code 1, neither file has been written.
C28_VersionFilesAllOrNothing ==
    VersionFilesFailed =>
        /\ RunsOf("write entry") = {}
        /\ RunsOf("write deno.json") = {}
        /\ denoFile = current

\* C29: a confirmed run that ended with code 0 has made the commit and the
\* tag v<next> and, unless it is a dry run, git push and git push --tags
\* both succeeded; a run in which the check task, the commit, the tag or a
\* push failed has ended with code 1.
C29_ExitStatus ==
    /\ (confirmed /\ relExit = 0) =>
        /\ Succeeded("commit")
        /\ commitMessage # <<>>
        /\ Succeeded("tag")
        /\ tag # <<>>
        /\ tag[1] = <<"v">> \o nextVersion
        /\ ~dryRun => Succeeded("push") /\ Succeeded("push --tags")
    /\ (\E i \in FailedRuns : events[i].step \in AbortingSteps) => relExit = 1

\* a complete release, ended with code 0 after both pushes
C29_Witness ==
    /\ confirmed
    /\ ~dryRun
    /\ relPc = "done"
    /\ relExit = 0
    /\ Succeeded("push --tags")

\* C30: before the confirmation is granted no file is written and no
\* subprocess is run; without --yes and without a terminal the run ends at
\* the confirmation with code 1; a run that ended with code 0 without the
\* confirmation, the prompt having been declined, left every file as it was.
C30_ConfirmationGate ==
    /\ ~confirmed =>
        /\ events = <<>>
        /\ denoFile = current
        /\ changelog = original
        /\ commitMessage = <<>>
        /\ tag = <<>>
        /\ runs = 0
    /\ (~autoConfirm /\ ~isInteractive) =>
        /\ ~confirmed
        /\ relPc \in {"start", "calculate", "confirm", "exit"}
        /\ relPc = "exit" => relExit = 1
    /\ (~confirmed /\ relExit = 0) =>
        /\ ~autoConfirm
        /\ isInteractive
        /\ relPc = "exit"

\* the prompt was declined
C30_Witness ==
    /\ ~confirmed
    /\ relPc = "exit"
    /\ relExit = 0

====
